---- MODULE Spec2Model ----
(***************************************************************************)
(* configurafox: the node-tree walker (walk), its four transformers        *)
(* (VariableReplacer, LinkReplacer, KatexReplacer, SyntaxHighlighter),     *)
(* deindent, and the part of HTMLProcessor::process_resource around walk.  *)
(*                                                                         *)
(* A Rust String is the sequence of its characters, each a one-character   *)
(* string, so that starts_with, &x[1..], trimming and line splitting are   *)
(* computed and not assumed.  A Path is the sequence of its components.    *)
(***************************************************************************)
EXTENDS Integers, Sequences, FiniteSets, TLC

VARIABLES
    replacers,   \* HTMLProcessor.walkers: the transformer list, in order
    ctx,         \* Context: source_path (the registry is Resources below)
    syntect,     \* how the highlighting engine answers in this run
    input,       \* the tree as parsed, before walk (kept for comparison)
    dom,         \* the tree walk rewrites in place
    stack,       \* the active calls of walk, outermost first
    result,      \* what the outermost walk returned, once it has
    log,         \* every matches / replace call made, in order, with its result
    returned,    \* what process_resource returned, once it has
    source,      \* deindent: its argument
    deindented   \* deindent: its result, once computed

vars == <<replacers, ctx, syntect, input, dom, stack, result, log, returned,
          source, deindented>>

-----------------------------------------------------------------------------
(* Bounds of the model *)

\* most sibling nodes at the top level of an input tree
MaxSiblings == 2
\* longest text given to deindent
MaxLen == 4

-----------------------------------------------------------------------------
(* String literals of the source and of the modelled inputs *)

S_div == <<"d","i","v">>
S_a == <<"a">>
S_span == <<"s","p","a","n">>
S_pre == <<"p","r","e">>
S_code == <<"c","o","d","e">>
S_link == <<"l","i","n","k">>
S_dollar == <<"$">>
S_katex == <<"k","a","t","e","x">>
S_katex_prelude == <<"k","a","t","e","x","-","p","r","e","l","u","d","e">>
S_code_hl == <<"c","o","d","e","-","h","l">>
S_pre_hl == <<"p","r","e","-","h","l">>
S_lang == <<"l","a","n","g">>
S_class == <<"c","l","a","s","s">>
S_href == <<"h","r","e","f">>
S_id == <<"i","d">>
S_rel == <<"r","e","l">>
S_style == <<"s","t","y","l","e">>
S_stylesheet == <<"s","t","y","l","e","s","h","e","e","t">>
S_name == <<"n","a","m","e">>
S_unknown == <<"u","n","k","n","o","w","n">>
S_ref == <<"r","e","f">>
S_Alice == <<"A","l","i","c","e">>
S_about == <<"a","b","o","u","t">>
S_missing == <<"m","i","s","s","i","n","g">>
S_raw == <<"r","a","w">>
S_post1 == <<"p","o","s","t","1">>
S_rs == <<"r","s">>
S_zz == <<"z","z">>
S_blog == <<"b","l","o","g">>
S_post1_html == <<"p","o","s","t","1",".","h","t","m","l">>
S_index_html == <<"i","n","d","e","x",".","h","t","m","l">>
S_notes == <<"n","o","t","e","s">>
S_n_html == <<"n",".","h","t","m","l">>
S_x_at_y == <<"x","@","y">>
S_x == <<"x">>
S_brace == <<"{">>
S_cdn_prefix == <<"h","t","t","p","s",":","/","/","c","d","n",".","j","s","d","e","l","i","v","r",".","n","e","t","/","n","p","m","/","k","a","t","e","x","@">>
S_cdn_suffix == <<"/","d","i","s","t","/","k","a","t","e","x",".","m","i","n",".","c","s","s">>
S_background == <<"b","a","c","k","g","r","o","u","n","d",":"," ","#","2","b","3","0","3","b",";">>
S_dotdot == <<".",".">>
S_dot == <<".">>

\* a byte that is not valid UTF-8, as it can occur in a Unix path
BadByte == "<FF>"
S_raw_bin == <<"r","a","w",BadByte>>

-----------------------------------------------------------------------------
(* Strings *)

\* str::starts_with(c) for a one-character pattern
StartsWith(s, c) == Len(s) > 0 /\ s[1] = c

\* &x[1..] where x starts with a one-byte character
DropFirst(x) == SubSeq(x, 2, Len(x))

Min(S) == CHOOSE m \in S : \A n \in S : m <= n

RECURSIVE Concat(_)
\* the concatenation of a sequence of sequences
Concat(ss) == IF ss = <<>> THEN <<>> ELSE Head(ss) \o Concat(Tail(ss))

-----------------------------------------------------------------------------
(* html_editor::Node, Result and Option *)

Element(name, attrs, children) ==
    [type |-> "Element", name |-> name, attrs |-> attrs, children |-> children]
Text(s) == [type |-> "Text", text |-> s]
RawHTML(s) == [type |-> "RawHTML", html |-> s]

IsElement(n) == n.type = "Element"

Ok(v) == [kind |-> "Ok", val |-> v]
Err(e) == [kind |-> "Err", err |-> e]
\* a panic unwinds: the call returns nothing
Panic(msg) == [kind |-> "Panic", msg |-> msg]

\* ConfigurafoxError::Other(format!(fmt, arg)): the template and its argument
Other(fmt, arg) == [variant |-> "Other", fmt |-> fmt, arg |-> arg]

None == [kind |-> "None"]
Some(v) == [kind |-> "Some", val |-> v]

\* get_attr: the value of the first attribute with this key
get_attr(attrs, key) ==
    LET hits == {i \in DOMAIN attrs : attrs[i][1] = key}
    IN  IF hits = {} THEN None ELSE Some(attrs[Min(hits)][2])

\* .into_iter().map(|(k, v)| Ok((k, f(v)?))).collect::<Result<Vec<_>, _>>():
\* mapped[i] is f of the i-th value; the attributes with the mapped values, or
\* the first failure in attribute order
CollectAttrs(attrs, mapped) ==
    LET bad == {i \in DOMAIN attrs : mapped[i].kind # "Ok"}
    IN  IF bad = {}
        THEN Ok([i \in DOMAIN attrs |-> <<attrs[i][1], mapped[i].val>>])
        ELSE mapped[Min(bad)]

-----------------------------------------------------------------------------
(* std::path *)

RelPath(comps) == [abs |-> FALSE, comps |-> comps]

\* Path::parent: None for the empty path and for the root
Parent(p) ==
    IF p.comps = <<>> THEN None
    ELSE Some([p EXCEPT !.comps = SubSeq(p.comps, 1, Len(p.comps) - 1)])

RECURSIVE DiffComps(_, _, _)
\* the loop of pathdiff::diff_paths over the two component iterators
DiffComps(a, b, comps) ==
    IF a = <<>> /\ b = <<>> THEN Some(comps)
    ELSE IF b = <<>> THEN Some(comps \o a)
    ELSE IF a = <<>> THEN DiffComps(a, Tail(b), Append(comps, S_dotdot))
    ELSE IF comps = <<>> /\ Head(a) = Head(b) THEN DiffComps(Tail(a), Tail(b), comps)
    ELSE IF Head(b) = S_dot THEN DiffComps(Tail(a), Tail(b), Append(comps, Head(a)))
    ELSE IF Head(b) = S_dotdot THEN None
    ELSE Some(comps \o [i \in 1..Len(b) |-> S_dotdot] \o a)

\* pathdiff::diff_paths(path, base)
diff_paths(path, base) ==
    IF path.abs # base.abs
    THEN IF path.abs THEN Some(path) ELSE None
    ELSE LET d == DiffComps(path.comps, base.comps, <<>>)
         IN  IF d = None THEN None ELSE Some(RelPath(d.val))

RECURSIVE JoinWith(_, _)
\* the pieces joined with the separator between them
JoinWith(pieces, sep) ==
    IF pieces = <<>> THEN <<>>
    ELSE IF Len(pieces) = 1 THEN pieces[1]
    ELSE pieces[1] \o sep \o JoinWith(Tail(pieces), sep)

\* Path::to_str: None when the path is not valid UTF-8
to_str(p) ==
    LET s == (IF p.abs THEN <<"/">> ELSE <<>>) \o JoinWith(p.comps, <<"/">>)
    IN  IF \E i \in DOMAIN s : s[i] = BadByte THEN None ELSE Some(s)

-----------------------------------------------------------------------------
(* ResourceManager: the registered resources, fixed before processing *)

Resource(identifier, output_path) ==
    [identifier |-> identifier, output_path |-> output_path]

\* registered_resources: source path -> Resource (identifiers are unique)
registered_resources ==
    (RelPath(<<S_blog, S_post1_html>>)
        :> Resource(S_post1, RelPath(<<S_blog, S_post1_html>>)))
    @@ (RelPath(<<S_about>>)
        :> Resource(S_about, RelPath(<<S_about, S_index_html>>)))
    @@ (RelPath(<<S_raw_bin>>)
        :> Resource(S_raw, RelPath(<<S_raw_bin>>)))

\* ResourceManager::all_registered_files, iterated for its resources
all_registered_files == {registered_resources[p] : p \in DOMAIN registered_resources}

-----------------------------------------------------------------------------
(* deindent *)

NL == "\n"
Whitespace == {" ", "\n", "\r", "\t"}

\* Faulty variant of trim_start_matches_nl: strip_prefix("\n"), one newline only
strip_one_nl(s) == IF StartsWith(s, NL) THEN Tail(s) ELSE s

RECURSIVE trim_start_matches_nl(_)
\* str::trim_start_matches("\n"): every leading newline goes
trim_start_matches_nl(s) ==
    IF StartsWith(s, NL) THEN trim_start_matches_nl(Tail(s)) ELSE s

RECURSIVE trim_end(_)
\* str::trim_end: trailing whitespace goes
trim_end(s) ==
    IF s # <<>> /\ s[Len(s)] \in Whitespace
    THEN trim_end(SubSeq(s, 1, Len(s) - 1)) ELSE s

RECURSIVE take_while_space(_)
\* chars().take_while(|c| c == ' ').count()
take_while_space(s) ==
    IF StartsWith(s, " ") THEN 1 + take_while_space(Tail(s)) ELSE 0

\* the end of a line cut at "\n": a "\r" before the "\n" goes with it
StripCR(line) ==
    IF line # <<>> /\ line[Len(line)] = "\r"
    THEN SubSeq(line, 1, Len(line) - 1) ELSE line

RECURSIVE lines(_)
\* str::lines: split after each "\n"; "\n" or "\r\n" is the line ending;
\* a last line without "\n" is kept as it is; no line for the empty string
lines(s) ==
    IF s = <<>> THEN <<>>
    ELSE LET nls == {i \in DOMAIN s : s[i] = NL}
         IN  IF nls = {} THEN <<s>>
             ELSE <<StripCR(SubSeq(s, 1, Min(nls) - 1))>>
                  \o lines(SubSeq(s, Min(nls) + 1, Len(s)))

\* x.strip_prefix(&prefix).unwrap_or(x)
strip_prefix_or(x, prefix) ==
    IF Len(x) >= Len(prefix) /\ SubSeq(x, 1, Len(prefix)) = prefix
    THEN SubSeq(x, Len(prefix) + 1, Len(x)) ELSE x

deindent(src) ==
    LET trimmed  == trim_end(trim_start_matches_nl(src))
        n_spaces == take_while_space(trimmed)
        prefix   == [i \in 1..n_spaces |-> " "]
        ls       == lines(trimmed)
    IN  JoinWith([i \in DOMAIN ls |-> strip_prefix_or(ls[i], prefix)], <<NL>>)

-----------------------------------------------------------------------------
(* VariableReplacer *)

\* VariableReplacer.0: the variables, fixed at construction
Variables ==
    (S_name :> S_Alice) @@ (S_ref :> (<<"@">> \o S_about))

\* Faulty variant of VariableMatches: looks at the tag name only
VariableMatchesTagOnly(tag_name, attrs) == StartsWith(tag_name, "$")

VariableMatches(tag_name, attrs) ==
    \/ StartsWith(tag_name, "$")
    \/ \E i \in DOMAIN attrs : StartsWith(attrs[i][2], "$")

\* Faulty variant of replace_var: looks the name up with its sigil, self.0.get(&x)
replace_var_with_sigil(x) ==
    IF ~StartsWith(x, "$") THEN Ok(x)
    ELSE IF x \notin DOMAIN Variables
         THEN Err(Other("Unknown variable {x}", x))
         ELSE Ok(Variables[x])

\* the closure replace_var
replace_var(x) ==
    IF ~StartsWith(x, "$") THEN Ok(x)
    ELSE IF DropFirst(x) \notin DOMAIN Variables
         THEN Err(Other("Unknown variable {x}", x))
         ELSE Ok(Variables[DropFirst(x)])

VariableReplace(tag_name, attrs, children) ==
    IF StartsWith(tag_name, "$")
    THEN LET v == replace_var(tag_name)
         IN  IF v.kind = "Ok" THEN Ok(<<Text(v.val)>>) ELSE v
    ELSE LET new_attrs == CollectAttrs(attrs, [i \in DOMAIN attrs |-> replace_var(attrs[i][2])])
         IN  IF new_attrs.kind = "Ok"
             THEN Ok(<<Element(tag_name, new_attrs.val, children)>>)
             ELSE new_attrs

-----------------------------------------------------------------------------
(* LinkReplacer *)

LinkMatches(attrs) ==
    \E i \in DOMAIN attrs : StartsWith(attrs[i][2], "@")

\* the closure replace_link
replace_link(x, c) ==
    IF ~StartsWith(x, "@") THEN Ok(x)
    ELSE LET identifier == DropFirst(x)
             found == {r \in all_registered_files : r.identifier = identifier}
         IN  IF found = {} THEN Err(Other("Unknown identifier: {x}", x))
             ELSE LET path == (CHOOSE r \in found : TRUE).output_path
                      source_dir == Parent(c.source_path)
                      diff == IF source_dir # None
                              THEN diff_paths(path, source_dir.val)
                              ELSE Some(path)
                  IN  IF diff = None
                      THEN Panic("Resource referenced could not be relativized")
                      ELSE IF to_str(diff.val) = None
                           THEN Panic("Invalid UTF-8 in path")
                           ELSE Ok(to_str(diff.val).val)

LinkReplace(tag_name, attrs, children, c) ==
    LET new_attrs == CollectAttrs(attrs, [i \in DOMAIN attrs |->
                                                 replace_link(attrs[i][2], c)])
    IN  IF new_attrs.kind = "Ok"
        THEN Ok(<<Element(tag_name, new_attrs.val, children)>>)
        ELSE new_attrs

-----------------------------------------------------------------------------
(* KatexReplacer *)

\* katex::KATEX_VERSION, opaque here
KATEX_VERSION == <<"v">>

\* katex::render_with_opts: the engine rejects TeX it cannot parse, here the
\* unbalanced "{"; its HTML is kept as the text and mode it was rendered from
render_with_opts(tex, display_mode) ==
    IF tex = S_brace THEN Err("katex::Error")
    ELSE Ok([katex_html_of |-> tex, display_mode |-> display_mode])

KatexMatches(tag_name) ==
    tag_name = S_dollar \/ tag_name = S_katex \/ tag_name = S_katex_prelude

KatexReplace(tag_name, children) ==
    IF tag_name = S_katex_prelude
    THEN Ok(<<Element(S_link,
                      << <<S_rel, S_stylesheet>>,
                         <<S_href, S_cdn_prefix \o KATEX_VERSION \o S_cdn_suffix>> >>,
                      <<>>)>>)
    ELSE IF tag_name = S_katex \/ tag_name = S_dollar
    THEN IF Len(children) = 1 /\ children[1].type = "Text"
         THEN LET rendered == render_with_opts(children[1].text, tag_name = S_katex)
              IN  IF rendered.kind = "Ok"
                  THEN Ok(<<RawHTML(rendered.val)>>)
                  ELSE Panic("meow")
         ELSE Err(Other("Katex: malformed body", <<>>))
    ELSE Panic("invalid tag for KatexReplacer")

-----------------------------------------------------------------------------
(* SyntaxHighlighter *)

\* SyntaxHighlighter.theme and .theme_set: the active theme and, per theme,
\* its optional background colour as the style it formats to
theme == "base16-ocean.dark"
theme_set == [t \in {"base16-ocean.dark"} |-> Some(S_background)]

\* the extensions syntax_set knows
syntax_extensions == {S_rs}

\* The answers the highlighting engine and the re-parse of its HTML can give.
\* EngineAnswers names them; ParsedFragment is html_editor::parse of the
\* generated HTML for the highlighted text.
EngineAnswers ==
    {"pre_then_newline", "pre_alone", "pre_with_element", "nothing",
     "text_first", "div_first", "syntect_error", "parse_error"}

ParsedFragment(answer, code_text) ==
    CASE answer = "pre_then_newline" ->
            <<Element(S_pre, <<>>, <<Element(S_span, <<>>, <<Text(code_text)>>)>>),
              Text(<<NL>>)>>
      [] answer = "pre_alone" ->
            <<Element(S_pre, <<>>, <<Text(code_text)>>)>>
      [] answer = "pre_with_element" ->
            <<Element(S_pre, <<>>,
                      <<Element(<<"$">> \o S_name, <<>>, <<>>), Text(code_text)>>)>>
      [] answer = "nothing" -> <<>>
      [] answer = "text_first" ->
            <<Text(code_text), Element(S_pre, <<>>, <<>>)>>
      [] answer = "div_first" ->
            <<Element(S_div, <<>>, <<Text(code_text)>>)>>
      [] OTHER -> <<>>

\* Faulty variant of FirstPre: insists on a single root node
OnlyPre(html_parsed) ==
    IF Len(html_parsed) # 1 \/ ~IsElement(html_parsed[1]) THEN None
    ELSE IF html_parsed[1].name # S_pre THEN None
    ELSE Some(html_parsed[1])

\* html_parsed.into_iter().next() taken as Element { name: "pre", .. }: the
\* first root node when it is an Element named pre, whatever follows it
FirstPre(html_parsed) ==
    IF html_parsed = <<>> \/ ~IsElement(html_parsed[1]) THEN None
    ELSE IF html_parsed[1].name # S_pre THEN None
    ELSE Some(html_parsed[1])

SyntaxMatches(tag_name) == tag_name = S_code_hl \/ tag_name = S_pre_hl

SyntaxReplace(tag_name, attrs, children, engine) ==
    IF ~(Len(children) = 1 /\ children[1].type = "Text")
    THEN Err(Other("{tag_name} must contain only text children", tag_name))
    ELSE
    LET code_text == deindent(children[1].text)
        lang == get_attr(attrs, S_lang)
    IN  IF lang = None THEN Err(Other("Missing lang= attribute", <<>>))
        ELSE IF theme \notin DOMAIN theme_set
        THEN Err(Other("No such theme {}", theme))
        ELSE IF lang.val \notin syntax_extensions
        THEN Err(Other("Unknown language {lang}", lang.val))
        ELSE IF engine = "syntect_error"
        THEN Err([variant |-> "SyntectError"])
        ELSE IF engine = "parse_error"
        THEN Err([variant |-> "ParseHTMLError", path |-> "<generated-syntect>"])
        ELSE
        LET html_parsed == ParsedFragment(engine, code_text)
            invalid == Err(Other("Invalid html generated by syntect: {html_str:?}",
                                 engine))
        IN  IF FirstPre(html_parsed) = None THEN invalid
            ELSE
            LET root == FirstPre(html_parsed).val
                background == theme_set[theme]
                new_attrs == IF background # None
                             THEN Append(root.attrs, <<S_style, background.val>>)
                             ELSE root.attrs
            IN  IF tag_name = S_pre_hl
                THEN Ok(<<Element(S_pre, new_attrs, root.children)>>)
                ELSE IF tag_name = S_code_hl
                THEN Ok(<<Element(S_code, new_attrs, root.children)>>)
                ELSE Panic("unreachable")

-----------------------------------------------------------------------------
(* TreeWalker: the dispatch over the four implementations *)

Transformers == {"VariableReplacer", "LinkReplacer", "KatexReplacer", "SyntaxHighlighter"}

Matches(replacer, tag_name, attrs) ==
    CASE replacer = "VariableReplacer" -> VariableMatches(tag_name, attrs)
      [] replacer = "LinkReplacer" -> LinkMatches(attrs)
      [] replacer = "KatexReplacer" -> KatexMatches(tag_name)
      [] replacer = "SyntaxHighlighter" -> SyntaxMatches(tag_name)

Replace(replacer, tag_name, attrs, children, c, engine) ==
    CASE replacer = "VariableReplacer" -> VariableReplace(tag_name, attrs, children)
      [] replacer = "LinkReplacer" -> LinkReplace(tag_name, attrs, children, c)
      [] replacer = "KatexReplacer" -> KatexReplace(tag_name, children)
      [] replacer = "SyntaxHighlighter" -> SyntaxReplace(tag_name, attrs, children, engine)

-----------------------------------------------------------------------------
(* The inputs of the model *)

\* the transformer lists (HTMLProcessor.walkers) tried
ReplacerLists ==
    { <<"VariableReplacer", "LinkReplacer", "KatexReplacer", "SyntaxHighlighter">>,
      <<"KatexReplacer", "SyntaxHighlighter", "LinkReplacer", "VariableReplacer">>,
      <<"VariableReplacer", "LinkReplacer">>,
      <<"LinkReplacer", "VariableReplacer">> }

\* Context.source_path: a file in a directory, a file at the project root,
\* the empty path (no parent), a file reached through ".."
DefaultSourcePath == RelPath(<<S_blog, S_post1_html>>)
SourcePaths ==
    { DefaultSourcePath,
      RelPath(<<S_index_html>>),
      RelPath(<<>>),
      RelPath(<<S_dotdot, S_notes, S_n_html>>) }

DefaultEngineAnswer == "pre_then_newline"

N_text == Text(<<"$">> \o S_name)
N_raw == RawHTML(<<"<", "b", ">">>)
N_var == Element(<<"$">> \o S_name, << <<S_id, <<"$">> \o S_unknown>> >>, <<Text(S_x)>>)
N_unknown == Element(<<"$">> \o S_unknown, <<>>, <<>>)
N_inline == Element(S_dollar, <<>>, <<Text(S_x)>>)
N_katex_bad_tex == Element(S_katex, <<>>, <<Text(S_brace)>>)
N_pre_hl == Element(S_pre_hl, << <<S_lang, S_rs>> >>, <<Text(<<NL, " ">> \o S_x)>>)
N_both ==
    Element(S_a, << <<S_href, <<"@">> \o S_about>>, <<S_class, <<"$">> \o S_name>> >>, <<>>)
N_missing ==
    Element(S_a, << <<S_id, <<"$">> \o S_unknown>>, <<S_href, <<"@">> \o S_missing>> >>,
            <<Text(S_x)>>)
N_rawlink ==
    Element(S_a, << <<S_href, <<"@">> \o S_raw>>, <<S_id, <<"@">> \o S_missing>> >>, <<>>)
N_ref == Element(S_a, << <<S_href, <<"$">> \o S_ref>>, <<S_id, S_x>> >>, <<N_text>>)
N_plain ==
    Element(S_div, << <<S_class, S_x_at_y>> >>,
            <<N_text, Element(S_span, <<>>, <<N_raw>>)>>)
N_nested ==
    Element(S_div, << <<S_class, <<"$">> \o S_name>> >>,
            <<Element(<<"$">> \o S_name, <<>>, <<>>), N_both>>)
N_nested_err == Element(S_div, <<>>, <<N_unknown, N_var>>)

InputNodes ==
    { N_text, N_var, N_unknown, N_inline, N_katex_bad_tex, N_pre_hl, N_both,
      N_missing, N_rawlink, N_ref, N_plain, N_nested, N_nested_err }

\* the parsed documents: up to MaxSiblings of these nodes at the top level
InputTrees == UNION {[1..n -> InputNodes] : n \in 0..MaxSiblings}

RECURSIVE ElementsOf(_)
\* every Element of a node sequence, at any depth
ElementsOf(nodes) ==
    UNION { IF IsElement(nodes[i])
            THEN {nodes[i]} \cup ElementsOf(nodes[i].children)
            ELSE {}
          : i \in DOMAIN nodes }

-----------------------------------------------------------------------------
(* walk *)

RECURSIVE NodesAt(_, _)
\* the Vec<Node> a call of walk holds: the tree itself for the empty path,
\* else the children of the element the path leads to
NodesAt(d, path) ==
    IF path = <<>> THEN d
    ELSE NodesAt(d[Head(path)].children, Tail(path))

RECURSIVE WithNodesAt(_, _, _)
\* the tree with that Vec<Node> replaced
WithNodesAt(d, path, v) ==
    IF path = <<>> THEN v
    ELSE [d EXCEPT ![Head(path)].children =
              WithNodesAt(d[Head(path)].children, Tail(path), v)]

Top == stack[Len(stack)]

\* Faulty variant of FirstMatch: the last matching replacer wins
LastMatch(tag_name, attrs) ==
    LET m == {j \in DOMAIN replacers : Matches(replacers[j], tag_name, attrs)}
    IN  IF m = {} THEN 0 ELSE CHOOSE j \in m : \A k \in m : k <= j

\* the index of the first replacer whose matches is true, 0 when none is
FirstMatch(tag_name, attrs) ==
    LET m == {j \in DOMAIN replacers : Matches(replacers[j], tag_name, attrs)}
    IN  IF m = {} THEN 0 ELSE Min(m)

\* the calls of matches made for one element: in list order, up to and
\* including the first that answers true
MatchCalls(el) ==
    LET first == FirstMatch(el.name, el.attrs)
        upto  == IF first = 0 THEN Len(replacers) ELSE first
    IN  [j \in 1..upto |->
            [call |-> "matches", replacer |-> replacers[j],
             tag_name |-> el.name, attrs |-> el.attrs,
             ret |-> Matches(replacers[j], el.name, el.attrs)]]

\* the call of replace made for an element the replacer at index j matched
ReplaceCall(el, j) ==
    [call |-> "replace", replacer |-> replacers[j],
     tag_name |-> el.name, attrs |-> el.attrs, children |-> el.children,
     ret |-> Replace(replacers[j], el.name, el.attrs, el.children, ctx, syntect)]

\* let original_dom = std::mem::replace(dom, Vec::with_capacity(..))
EnterWalk(path) ==
    /\ stack' = Append(stack,
                       [path |-> path, original_dom |-> NodesAt(dom, path),
                        i |-> 1, phase |-> "rebuild", k |-> 1])
    /\ dom' = WithNodesAt(dom, path, <<>>)

\* dom.push(..) / dom.extend(..) of the call on top, and on to the next el
PushAndContinue(nodes) ==
    /\ dom' = WithNodesAt(dom, Top.path, NodesAt(dom, Top.path) \o nodes)
    /\ stack' = [stack EXCEPT ![Len(stack)].i = @ + 1]

Rebuilding ==
    /\ stack # <<>>
    /\ Top.phase = "rebuild"
    /\ Top.i <= Len(Top.original_dom)

Current == Top.original_dom[Top.i]

\* process_resource calls walk on the parsed tree
ProcessResourceCallsWalk ==
    /\ result.kind = "NotCalled"
    /\ EnterWalk(<<>>)
    /\ result' = [kind |-> "Running"]
    /\ UNCHANGED <<replacers, ctx, syntect, input, log, returned, source, deindented>>

\* a node that is not an Element is pushed as it is
WalkNonElement ==
    /\ Rebuilding
    /\ ~IsElement(Current)
    /\ PushAndContinue(<<Current>>)
    /\ UNCHANGED <<replacers, ctx, syntect, input, result, log, returned, source, deindented>>

\* Faulty variant of WalkKeep: the unmatched element is not pushed back
WalkKeepDrops ==
    /\ Rebuilding
    /\ IsElement(Current)
    /\ FirstMatch(Current.name, Current.attrs) = 0
    /\ log' = log \o MatchCalls(Current)
    /\ PushAndContinue(<<>>)
    /\ UNCHANGED <<replacers, ctx, syntect, input, result, returned, source, deindented>>

\* no replacer matches: the element is pushed as it is
WalkKeep ==
    /\ Rebuilding
    /\ IsElement(Current)
    /\ FirstMatch(Current.name, Current.attrs) = 0
    /\ log' = log \o MatchCalls(Current)
    /\ PushAndContinue(<<Current>>)
    /\ UNCHANGED <<replacers, ctx, syntect, input, result, returned, source, deindented>>

\* the first matching replacer's replace returns Ok(res): dom.extend(res)
WalkReplaceOk ==
    /\ Rebuilding
    /\ IsElement(Current)
    /\ LET j == FirstMatch(Current.name, Current.attrs)
       IN  /\ j # 0
           /\ ReplaceCall(Current, j).ret.kind = "Ok"
           /\ log' = Append(log \o MatchCalls(Current), ReplaceCall(Current, j))
           /\ PushAndContinue(ReplaceCall(Current, j).ret.val)
    /\ UNCHANGED <<replacers, ctx, syntect, input, result, returned, source, deindented>>

\* Faulty variant of WalkReplaceErr: the Err is dropped with the element and
\* the loop goes on to the next sibling
WalkReplaceErrContinues ==
    /\ Rebuilding
    /\ IsElement(Current)
    /\ LET j == FirstMatch(Current.name, Current.attrs)
       IN  /\ j # 0
           /\ ReplaceCall(Current, j).ret.kind = "Err"
           /\ log' = Append(log \o MatchCalls(Current), ReplaceCall(Current, j))
    /\ PushAndContinue(<<>>)
    /\ UNCHANGED <<replacers, ctx, syntect, input, result, returned, source, deindented>>

\* replace returns Err: the ? returns it from this call, and the ? after each
\* enclosing walk(children, ..) returns it from every caller in turn
WalkReplaceErr ==
    /\ Rebuilding
    /\ IsElement(Current)
    /\ LET j == FirstMatch(Current.name, Current.attrs)
       IN  /\ j # 0
           /\ ReplaceCall(Current, j).ret.kind = "Err"
           /\ log' = Append(log \o MatchCalls(Current), ReplaceCall(Current, j))
           /\ result' = ReplaceCall(Current, j).ret
    /\ stack' = <<>>
    /\ UNCHANGED <<replacers, ctx, syntect, input, dom, returned, source, deindented>>

\* replace panics (an expect or unwrap fails): the panic unwinds through
\* walk and process_resource, which return nothing
WalkReplacePanic ==
    /\ Rebuilding
    /\ IsElement(Current)
    /\ LET j == FirstMatch(Current.name, Current.attrs)
       IN  /\ j # 0
           /\ ReplaceCall(Current, j).ret.kind = "Panic"
           /\ log' = Append(log \o MatchCalls(Current), ReplaceCall(Current, j))
           /\ result' = ReplaceCall(Current, j).ret
    /\ stack' = <<>>
    /\ UNCHANGED <<replacers, ctx, syntect, input, dom, returned, source, deindented>>

\* the first loop is over: the second loop starts on the rebuilt dom
WalkLevelRebuilt ==
    /\ stack # <<>>
    /\ Top.phase = "rebuild"
    /\ Top.i > Len(Top.original_dom)
    /\ stack' = [stack EXCEPT ![Len(stack)].phase = "recurse"]
    /\ UNCHANGED <<replacers, ctx, syntect, input, dom, result, log, returned, source, deindented>>

Recursing ==
    /\ stack # <<>>
    /\ Top.phase = "recurse"
    /\ Top.k <= Len(NodesAt(dom, Top.path))

\* Faulty variant of WalkSkipChild: the second loop may pass over an Element
\* without walking its children
WalkSkipAnyChild ==
    /\ Recursing
    /\ stack' = [stack EXCEPT ![Len(stack)].k = @ + 1]
    /\ UNCHANGED <<replacers, ctx, syntect, input, dom, result, log, returned, source, deindented>>

\* second loop: a node of the rebuilt dom that is not an Element
WalkSkipChild ==
    /\ Recursing
    /\ ~IsElement(NodesAt(dom, Top.path)[Top.k])
    /\ stack' = [stack EXCEPT ![Len(stack)].k = @ + 1]
    /\ UNCHANGED <<replacers, ctx, syntect, input, dom, result, log, returned, source, deindented>>

\* second loop: walk(children, replacers, ctx) on an Element of the rebuilt dom
WalkRecurse ==
    /\ Recursing
    /\ IsElement(NodesAt(dom, Top.path)[Top.k])
    /\ EnterWalk(Append(Top.path, Top.k))
    /\ UNCHANGED <<replacers, ctx, syntect, input, result, log, returned, source, deindented>>

\* Ok(()): back in the caller's second loop, or out of the outermost walk
WalkReturn ==
    /\ stack # <<>>
    /\ Top.phase = "recurse"
    /\ Top.k > Len(NodesAt(dom, Top.path))
    /\ IF Len(stack) = 1
       THEN /\ stack' = <<>>
            /\ result' = Ok(<<>>)
       ELSE /\ stack' = [SubSeq(stack, 1, Len(stack) - 1)
                            EXCEPT ![Len(stack) - 1].k = @ + 1]
            /\ UNCHANGED result
    /\ UNCHANGED <<replacers, ctx, syntect, input, dom, log, returned, source, deindented>>

\* Faulty variant of ProcessResourceReturn: the result of walk is ignored and
\* the tree is serialized whatever it is
ProcessResourceReturnIgnoresErr ==
    /\ result.kind \in {"Ok", "Err"}
    /\ returned = None
    /\ \E trim \in BOOLEAN : returned' = Ok([html_of |-> dom, trim |-> trim])
    /\ UNCHANGED <<replacers, ctx, syntect, input, dom, stack, result, log, source, deindented>>

\* walk(..)? in process_resource: an Err is returned as it is; after Ok the
\* tree is trimmed if self.trim, serialized and returned as bytes
ProcessResourceReturn ==
    /\ result.kind \in {"Ok", "Err"}
    /\ returned = None
    /\ \E trim \in BOOLEAN :
          returned' = IF result.kind = "Err" THEN result
                      ELSE Ok([html_of |-> dom, trim |-> trim])
    /\ UNCHANGED <<replacers, ctx, syntect, input, dom, stack, result, log, source, deindented>>

-----------------------------------------------------------------------------
(* Specification of one process_resource run *)

Init ==
    /\ replacers \in ReplacerLists
    /\ input \in InputTrees
    /\ ctx \in [source_path : SourcePaths]
    /\ syntect \in EngineAnswers
    \* a source path or an engine answer the run cannot consult is not varied
    /\ \/ ctx.source_path = DefaultSourcePath
       \/ \E e \in ElementsOf(input) : LinkMatches(e.attrs)
    /\ \/ syntect = DefaultEngineAnswer
       \/ \E e \in ElementsOf(input) : SyntaxMatches(e.name)
    /\ dom = input
    /\ stack = <<>>
    /\ result = [kind |-> "NotCalled"]
    /\ log = <<>>
    /\ returned = None
    /\ source = <<>>
    /\ deindented = None

Next ==
    \/ ProcessResourceCallsWalk
    \/ WalkNonElement
    \/ WalkKeep
    \/ WalkReplaceOk
    \/ WalkReplaceErr
    \/ WalkReplacePanic
    \/ WalkLevelRebuilt
    \/ WalkSkipChild
    \/ WalkRecurse
    \/ WalkReturn
    \/ ProcessResourceReturn

Spec == Init /\ [][Next]_vars

-----------------------------------------------------------------------------
(* Specification of deindent alone, on every short text *)

DeindentChars == {" ", "\n", "\r", "\t", "a"}

\* "\n    line1\n    line2\n"
DeindentExample ==
    <<NL, " ", " ", " ", " ", "l", "i", "n", "e", "1",
      NL, " ", " ", " ", " ", "l", "i", "n", "e", "2", NL>>

DeindentInputs ==
    UNION {[1..n -> DeindentChars] : n \in 0..MaxLen} \cup {DeindentExample}

InitDeindent ==
    /\ source \in DeindentInputs
    /\ deindented = None
    /\ replacers = <<>>
    /\ ctx = [source_path |-> DefaultSourcePath]
    /\ syntect = DefaultEngineAnswer
    /\ input = <<>>
    /\ dom = <<>>
    /\ stack = <<>>
    /\ result = [kind |-> "NotCalled"]
    /\ log = <<>>
    /\ returned = None

CallDeindent ==
    /\ deindented = None
    /\ deindented' = Some(deindent(source))
    /\ UNCHANGED <<replacers, ctx, syntect, input, dom, stack, result, log, returned, source>>

NextDeindent == CallDeindent

SpecDeindent == InitDeindent /\ [][NextDeindent]_vars

-----------------------------------------------------------------------------
(* Properties of walk *)

IsReplaceCall(p) == log[p].call = "replace"

\* what one pass over a level puts in place of one node: the node itself
\* when it is no Element or no replacer matches it, else the return value of
\* replace of the replacer that matches it and has no matching replacer before
\* it in the list
ReplacedOnce(el) ==
    IF ~IsElement(el) THEN <<el>>
    ELSE IF \A j \in DOMAIN replacers : ~Matches(replacers[j], el.name, el.attrs)
    THEN <<el>>
    ELSE LET j == CHOOSE j \in DOMAIN replacers :
                      /\ Matches(replacers[j], el.name, el.attrs)
                      /\ \A k \in 1..(j - 1) : ~Matches(replacers[k], el.name, el.attrs)
             ret == Replace(replacers[j], el.name, el.attrs, el.children, ctx, syntect)
         IN  IF ret.kind = "Ok" THEN ret.val ELSE <<[type |-> "NoReturnValue"]>>

\* the replace call at place p of the log was made by the replacer at index j
\* right after matches was asked of replacers 1..j for the same element and
\* answered false by all but the last
AfterFirstMatch(p, j) ==
    /\ replacers[j] = log[p].replacer
    /\ p > j
    /\ \A q \in 1..j :
          LET m == log[p - j + q - 1]
          IN  /\ m.call = "matches"
              /\ m.replacer = replacers[q]
              /\ m.tag_name = log[p].tag_name
              /\ m.attrs = log[p].attrs
              /\ m.ret = (q = j)

\* C1: while a level is rebuilt, what stands in the output for each node
\* already visited is the node unchanged or exactly the return value of
\* replace of the first replacer in list order that matches it; each replace
\* call follows the matches calls up to that first match, and the call after
\* it is matches of the first replacer for the next element, so no later
\* replacer is applied to the replaced element.
C1_FirstMatchOnly ==
    /\ (stack # <<>> /\ Top.phase = "rebuild") =>
          NodesAt(dom, Top.path) =
              Concat([n \in 1..(Top.i - 1) |-> ReplacedOnce(Top.original_dom[n])])
    /\ \A p \in DOMAIN log :
          IsReplaceCall(p) =>
              /\ \E j \in DOMAIN replacers : AfterFirstMatch(p, j)
              /\ p < Len(log) =>
                    /\ log[p + 1].call = "matches"
                    /\ log[p + 1].replacer = replacers[1]

\* a walk that succeeded after replacing an element that a later replacer of
\* the list matches too
C1_Witness ==
    /\ result.kind = "Ok"
    /\ \E p \in DOMAIN log :
          /\ IsReplaceCall(p)
          /\ \E j, j2 \in DOMAIN replacers :
                /\ j < j2
                /\ replacers[j] = log[p].replacer
                /\ Matches(replacers[j2], log[p].tag_name, log[p].attrs)

RECURSIVE OnePass(_)
\* one pass over a tree: each node of the level replaced once, then the same
\* on the children of every Element the level then holds
OnePass(nodes) ==
    LET level == Concat([i \in DOMAIN nodes |-> ReplacedOnce(nodes[i])])
    IN  [k \in DOMAIN level |->
            IF IsElement(level[k])
            THEN [level[k] EXCEPT !.children = OnePass(level[k].children)]
            ELSE level[k]]

\* C2: a walk that returns Ok leaves the tree of one pass: an Element that
\* replace returned is not tested against the list again (each element is
\* replaced at most once), and the children of every Element of the rebuilt
\* level, those returned by replace included, are walked in turn.
C2_ReplacedOnceChildrenWalked ==
    result.kind = "Ok" => dom = OnePass(input)

\* a successful walk in which replace returned an Element that some replacer
\* of the list matches, and returned an Element with a child Element that was
\* replaced in turn
C2_Witness ==
    /\ result.kind = "Ok"
    /\ \E p \in DOMAIN log :
          /\ IsReplaceCall(p)
          /\ \E n \in DOMAIN log[p].ret.val :
                LET r == log[p].ret.val[n]
                IN  /\ IsElement(r)
                    /\ \E j \in DOMAIN replacers : Matches(replacers[j], r.name, r.attrs)
    /\ \E p, q \in DOMAIN log :
          /\ IsReplaceCall(p)
          /\ IsReplaceCall(q)
          /\ p < q
          /\ \E n \in DOMAIN log[p].ret.val :
                LET r == log[p].ret.val[n]
                IN  /\ IsElement(r)
                    /\ \E c \in DOMAIN r.children :
                          /\ IsElement(r.children[c])
                          /\ r.children[c].name = log[q].tag_name
                          /\ r.children[c].attrs = log[q].attrs

\* C3: a replace call that returned an error is the last call of the run (no
\* matches or replace call follows it at any level), every call of walk has
\* returned, and the outermost walk returned that same error, which is also
\* what process_resource then returns.
C3_ErrorStopsWalk ==
    \A p \in DOMAIN log :
        (IsReplaceCall(p) /\ log[p].ret.kind = "Err") =>
            /\ p = Len(log)
            /\ stack = <<>>
            /\ result = log[p].ret
            /\ returned # None => returned = log[p].ret

\* a walk ended by an error of a replace made below the top level, while an
\* element that some replacer matches was never tested
C3_Witness ==
    /\ result.kind = "Err"
    /\ \A i \in DOMAIN input :
          IsElement(input[i]) => input[i].name # log[Len(log)].tag_name
    /\ \E e \in ElementsOf(input) :
          /\ \E j \in DOMAIN replacers : Matches(replacers[j], e.name, e.attrs)
          /\ \A p \in DOMAIN log :
                ~(log[p].tag_name = e.name /\ log[p].attrs = e.attrs)

\* C4 as stated: when walk returns an error, the tree passed to it is
\* structurally equal to the tree before the call.
C4_TreeUntouchedOnError ==
    result.kind = "Err" => dom = input

\* C4 as amended: when walk returns an error, process_resource returns that
\* error and no bytes: output is only ever produced from the tree of a walk
\* that returned Ok.  (The tree passed to walk is not restored.)
C4_NoOutputOfFailedWalk ==
    /\ (result.kind = "Err" /\ returned # None) => returned = result
    /\ returned.kind = "Ok" =>
          /\ result.kind = "Ok"
          /\ returned.val.html_of = dom

\* process_resource has returned the error of a walk that left the tree
\* changed
C4_Witness ==
    /\ result.kind = "Err"
    /\ returned = result
    /\ dom # input

\* C5: every failure of a replace call reaches the caller as an error value:
\* no replace call ends in a panic.
C5_FailuresAreErrors ==
    \A p \in DOMAIN log :
        IsReplaceCall(p) => log[p].ret.kind \in {"Ok", "Err"}

-----------------------------------------------------------------------------
(* Properties of deindent *)

\* how many times c stands at the start of s
LeadingRun(s, c) ==
    CHOOSE k \in 0..Len(s) :
        /\ \A i \in 1..k : s[i] = c
        /\ k < Len(s) => s[k + 1] # c

\* s without its trailing whitespace
WithoutTrailingWhitespace(s) ==
    LET keep == {i \in DOMAIN s : s[i] \notin Whitespace}
    IN  IF keep = {} THEN <<>>
        ELSE SubSeq(s, 1, CHOOSE i \in keep : \A j \in keep : j <= i)

\* the lines of a text that does not end with a newline: the pieces between
\* its newlines, a carriage return before a newline belonging to the line end
LinesBetweenNewlines(s) ==
    LET nls == {i \in DOMAIN s : s[i] = NL}
        nth(m) == CHOOSE i \in nls : Cardinality({j \in nls : j <= i}) = m
        first(m) == IF m = 1 THEN 1 ELSE nth(m - 1) + 1
        last(m) == IF m > Cardinality(nls) THEN Len(s)
                   ELSE IF nth(m) > first(m) /\ s[nth(m) - 1] = "\r" THEN nth(m) - 2
                   ELSE nth(m) - 1
    IN  IF s = <<>> THEN <<>>
        ELSE [m \in 1..(Cardinality(nls) + 1) |-> SubSeq(s, first(m), last(m))]

\* de-indentation as described, with at most `most` leading newlines stripped
Deindented(s, most) ==
    LET run  == LeadingRun(s, NL)
        body == WithoutTrailingWhitespace(
                    SubSeq(s, (IF run > most THEN most ELSE run) + 1, Len(s)))
        n    == LeadingRun(body, " ")
        ls   == LinesBetweenNewlines(body)
        cut(line) == IF Len(line) >= n /\ \A i \in 1..n : line[i] = " "
                     THEN SubSeq(line, n + 1, Len(line)) ELSE line
    IN  JoinWith([m \in DOMAIN ls |-> cut(ls[m])], <<NL>>)

\* C6 as stated: a single leading newline is stripped, not more; then the
\* trailing whitespace, then the first line's run of spaces from every line
\* that starts with it, the lines joined with newline.
C6_OneNewlineStripped ==
    deindented # None => deindented.val = Deindented(source, 1)

\* C6 as amended: every leading newline is stripped (the rest as stated), and
\* "\n    line1\n    line2\n" becomes "line1\nline2".
C6_AllNewlinesStripped ==
    deindented # None =>
        /\ deindented.val = Deindented(source, Len(source))
        /\ source = DeindentExample =>
              deindented.val = <<"l", "i", "n", "e", "1", NL, "l", "i", "n", "e", "2">>

\* deindent has run on a text that starts with two newlines and whose first
\* line is indented
C6_Witness ==
    /\ deindented # None
    /\ Len(source) >= 4
    /\ source[1] = NL /\ source[2] = NL /\ source[3] = " "
    /\ deindented.val # <<>>

-----------------------------------------------------------------------------
(* Properties of the transformers *)

\* a call of SyntaxHighlighter::replace that reached the check of the
\* generated HTML: one Text child, a known lang, HTML generated and parsed
ReachedRootCheck(e) ==
    /\ e.call = "replace"
    /\ e.replacer = "SyntaxHighlighter"
    /\ Len(e.children) = 1
    /\ e.children[1].type = "Text"
    /\ get_attr(e.attrs, S_lang) # None
    /\ get_attr(e.attrs, S_lang).val \in syntax_extensions
    /\ syntect \notin {"syntect_error", "parse_error"}

GeneratedRoots(e) == ParsedFragment(syntect, deindent(e.children[1].text))

InvalidGeneratedHtml(ret) ==
    /\ ret.kind = "Err"
    /\ ret.err.variant = "Other"
    /\ ret.err.fmt = "Invalid html generated by syntect: {html_str:?}"

\* C7 as stated: the generated HTML is accepted only when its root is a
\* single Element named pre; every other root shape, more than one root node
\* included, gives the "invalid generated html" error.
C7_SingleRootPre ==
    \A p \in DOMAIN log :
        ReachedRootCheck(log[p]) =>
            LET roots == GeneratedRoots(log[p])
            IN  IF Len(roots) = 1 /\ IsElement(roots[1]) /\ roots[1].name = S_pre
                THEN log[p].ret.kind = "Ok"
                ELSE InvalidGeneratedHtml(log[p].ret)

\* C7 as amended: the generated HTML is accepted exactly when its first root
\* node is an Element named pre; root nodes after the first are dropped
\* without an error; no node, a first node that is no Element, or a first
\* Element of another name gives the "invalid generated html" error.
C7_FirstRootPre ==
    \A p \in DOMAIN log :
        ReachedRootCheck(log[p]) =>
            LET roots == GeneratedRoots(log[p])
            IN  IF roots # <<>> /\ IsElement(roots[1]) /\ roots[1].name = S_pre
                THEN /\ log[p].ret.kind = "Ok"
                     /\ Len(log[p].ret.val) = 1
                     /\ log[p].ret.val[1].children = roots[1].children
                ELSE InvalidGeneratedHtml(log[p].ret)

\* replace accepted generated HTML with a second root node after the pre
C7_Witness ==
    \E p \in DOMAIN log :
        /\ ReachedRootCheck(log[p])
        /\ Len(GeneratedRoots(log[p])) > 1
        /\ log[p].ret.kind = "Ok"

\* the registered resources with the identifier an "@" reference names
Referenced(x) == {r \in all_registered_files : r.identifier = DropFirst(x)}

Unresolvable(x) == StartsWith(x, "@") /\ Referenced(x) = {}

\* the value link resolution gives an attribute value: for an "@" reference
\* the resource's output_path relative to the directory of the source path,
\* or output_path itself when the source path has no parent
Resolved(x) ==
    IF ~StartsWith(x, "@") THEN x
    ELSE LET path == (CHOOSE r \in Referenced(x) : TRUE).output_path
             dir  == Parent(ctx.source_path)
         IN  IF dir = None THEN to_str(path).val
             ELSE to_str(diff_paths(path, dir.val).val).val

UnknownIdentifier(ret, refs) ==
    /\ ret.kind = "Err"
    /\ ret.err.variant = "Other"
    /\ ret.err.fmt = "Unknown identifier: {x}"
    /\ ret.err.arg \in refs

\* C8: LinkReplacer::replace returns the element with every "@" value turned
\* into the path of the resource it names, relative to the directory of the
\* source path, and with tag, keys, order, other values and children
\* unchanged; when a reference names no registered resource it returns the
\* "unknown identifier" error naming that reference.
C8_LinkResolution ==
    \A p \in DOMAIN log :
        (IsReplaceCall(p) /\ log[p].replacer = "LinkReplacer") =>
            LET e == log[p]
                unresolved == {e.attrs[i][2] : i \in {i \in DOMAIN e.attrs :
                                                        Unresolvable(e.attrs[i][2])}}
            IN  IF unresolved # {}
                THEN UnknownIdentifier(e.ret, unresolved)
                ELSE /\ e.ret.kind = "Ok"
                     /\ e.ret.val =
                          <<Element(e.tag_name,
                                    [i \in DOMAIN e.attrs |->
                                        <<e.attrs[i][1], Resolved(e.attrs[i][2])>>],
                                    e.children)>>
                     /\ (ctx.source_path = DefaultSourcePath
                         /\ e.attrs[1] = <<S_href, <<"@">> \o S_about>>) =>
                            e.ret.val[1].attrs[1][2] =
                                <<".", ".", "/">> \o S_about \o <<"/">> \o S_index_html

\* the same for the calls of LinkReplacer::replace that return: C8 fails on
\* no call but those that panic
C8_WhenReplaceReturns ==
    \A p \in DOMAIN log :
        (IsReplaceCall(p) /\ log[p].replacer = "LinkReplacer"
                          /\ log[p].ret.kind # "Panic") =>
            LET e == log[p]
                unresolved == {e.attrs[i][2] : i \in {i \in DOMAIN e.attrs :
                                                        Unresolvable(e.attrs[i][2])}}
            IN  IF e.ret.kind = "Err"
                THEN UnknownIdentifier(e.ret, unresolved)
                ELSE /\ unresolved = {}
                     /\ e.ret.val =
                          <<Element(e.tag_name,
                                    [i \in DOMAIN e.attrs |->
                                        <<e.attrs[i][1], Resolved(e.attrs[i][2])>>],
                                    e.children)>>

KnownVariable(x) == StartsWith(x, "$") => DropFirst(x) \in DOMAIN Variables

Substituted(x) == IF StartsWith(x, "$") THEN Variables[DropFirst(x)] ELSE x

UnknownVariable(ret, refs) ==
    /\ ret.kind = "Err"
    /\ ret.err.variant = "Other"
    /\ ret.err.fmt = "Unknown variable {x}"
    /\ ret.err.arg \in refs

\* C9: VariableReplacer::replace turns an element whose tag begins with "$"
\* into exactly one Text node holding the variable's value (attributes and
\* children discarded); for another tag it returns the element with every "$"
\* value replaced by its variable's value and keys, order, other values and
\* children unchanged; a name that is not in the mapping gives the "unknown
\* variable" error carrying the reference with its "$".
C9_VariableSubstitution ==
    \A p \in DOMAIN log :
        (IsReplaceCall(p) /\ log[p].replacer = "VariableReplacer") =>
            LET e == log[p]
                unknown == {e.attrs[i][2] : i \in {i \in DOMAIN e.attrs :
                                                     ~KnownVariable(e.attrs[i][2])}}
            IN  IF StartsWith(e.tag_name, "$")
                THEN IF KnownVariable(e.tag_name)
                     THEN e.ret = Ok(<<Text(Variables[DropFirst(e.tag_name)])>>)
                     ELSE UnknownVariable(e.ret, {e.tag_name})
                ELSE IF unknown = {}
                     THEN e.ret = Ok(<<Element(e.tag_name,
                                               [i \in DOMAIN e.attrs |->
                                                   <<e.attrs[i][1],
                                                     Substituted(e.attrs[i][2])>>],
                                               e.children)>>)
                     ELSE UnknownVariable(e.ret, unknown)

\* one walk in which replace turned a "$" element with attributes and
\* children into a Text node, and substituted a "$" value of an element that
\* also has another value and children
C9_Witness ==
    /\ \E p \in DOMAIN log :
          /\ IsReplaceCall(p) /\ log[p].replacer = "VariableReplacer"
          /\ StartsWith(log[p].tag_name, "$")
          /\ log[p].attrs # <<>> /\ log[p].children # <<>>
          /\ log[p].ret = Ok(<<Text(S_Alice)>>)
    /\ \E p \in DOMAIN log :
          /\ IsReplaceCall(p) /\ log[p].replacer = "VariableReplacer"
          /\ ~StartsWith(log[p].tag_name, "$")
          /\ Len(log[p].attrs) > 1 /\ log[p].children # <<>>
          /\ log[p].ret.kind = "Ok"

\* the tag names the transformers reserve
ReservedTags == {S_katex, S_katex_prelude, S_dollar, S_code_hl, S_pre_hl}

\* no element at any depth has a tag name or an attribute value that begins
\* with "$" or "@", or a reserved tag name
SigilFree(nodes) ==
    \A e \in ElementsOf(nodes) :
        /\ ~StartsWith(e.name, "$") /\ ~StartsWith(e.name, "@")
        /\ e.name \notin ReservedTags
        /\ \A i \in DOMAIN e.attrs :
              ~StartsWith(e.attrs[i][2], "$") /\ ~StartsWith(e.attrs[i][2], "@")

\* C10: on a tree without sigil-prefixed tags or values and without reserved
\* tags, walk with the four transformers makes no replace call, does not
\* fail, and returns Ok with the tree structurally equal to the input.
C10_NoOpOnPlainTree ==
    (SigilFree(input) /\ Len(replacers) = 4) =>
        /\ result.kind \in {"NotCalled", "Running", "Ok"}
        /\ \A p \in DOMAIN log : ~IsReplaceCall(p)
        /\ result.kind = "Ok" => dom = input

\* walk with the four transformers has returned on a plain tree that nests
\* an Element in an Element and holds Text with a "$" and RawHTML
C10_Witness ==
    /\ SigilFree(input)
    /\ Len(replacers) = 4
    /\ result.kind = "Ok"
    /\ log # <<>>
    /\ \E e \in ElementsOf(input) :
          \E c \in DOMAIN e.children :
              /\ IsElement(e.children[c])
              /\ \E t \in DOMAIN e.children : e.children[t].type = "Text"
              /\ \E g \in DOMAIN e.children[c].children :
                    e.children[c].children[g].type = "RawHTML"

-----------------------------------------------------------------------------
(* Properties of a transformer list that holds both VariableReplacer and
   LinkReplacer *)

HasValueWith(attrs, sigil) == \E i \in DOMAIN attrs : StartsWith(attrs[i][2], sigil)

\* a tag that is no variable, with a "$" value and an "@" value
BothSigils(tag_name, attrs) ==
    /\ ~StartsWith(tag_name, "$")
    /\ HasValueWith(attrs, "$")
    /\ HasValueWith(attrs, "@")

\* the attributes after the first of the two transformers alone has acted:
\* its own sigil's values replaced, every other value as it was
ClaimedByFirst(attrs) ==
    [i \in DOMAIN attrs |->
        <<attrs[i][1],
          IF replacers[1] = "VariableReplacer"
          THEN Substituted(attrs[i][2]) ELSE Resolved(attrs[i][2])>>]

\* C11: with the list [VariableReplacer, LinkReplacer] an element with a
\* non-"$" tag, a "$" value and an "@" value is claimed by VariableReplacer
\* only: LinkReplacer is asked nothing about it, replace returns it with the
\* "$" values substituted and the "@" values as they were, and after a
\* successful walk it stands in the output with its "@" values unresolved;
\* the same with the roles exchanged for [LinkReplacer, VariableReplacer].
C11_SecondSigilLeftInOutput ==
    (replacers \in {<<"VariableReplacer", "LinkReplacer">>,
                    <<"LinkReplacer", "VariableReplacer">>}) =>
        LET other == IF replacers[1] = "VariableReplacer" THEN "@" ELSE "$"
        IN  /\ \A p \in DOMAIN log :
                  BothSigils(log[p].tag_name, log[p].attrs) =>
                      /\ log[p].replacer = replacers[1]
                      /\ (IsReplaceCall(p) /\ log[p].ret.kind = "Ok") =>
                            /\ Len(log[p].ret.val) = 1
                            /\ log[p].ret.val[1].name = log[p].tag_name
                            /\ log[p].ret.val[1].attrs = ClaimedByFirst(log[p].attrs)
                            /\ \A i \in DOMAIN log[p].attrs :
                                  StartsWith(log[p].attrs[i][2], other) =>
                                      log[p].ret.val[1].attrs[i][2] = log[p].attrs[i][2]
            /\ result.kind = "Ok" =>
                  \A n \in DOMAIN input :
                      (IsElement(input[n]) /\ BothSigils(input[n].name, input[n].attrs)) =>
                          \E m \in DOMAIN dom :
                              /\ IsElement(dom[m])
                              /\ dom[m].name = input[n].name
                              /\ dom[m].attrs = ClaimedByFirst(input[n].attrs)
                              /\ HasValueWith(dom[m].attrs, other)

\* a walk with [VariableReplacer, LinkReplacer] has succeeded on a tree with
\* such an element: VariableReplacer replaced it, and the output holds it
\* with no "$" value left and its "@" value still there
C11_Witness ==
    /\ replacers = <<"VariableReplacer", "LinkReplacer">>
    /\ result.kind = "Ok"
    /\ \E n \in DOMAIN input :
          /\ IsElement(input[n])
          /\ BothSigils(input[n].name, input[n].attrs)
          /\ \E p \in DOMAIN log :
                /\ IsReplaceCall(p)
                /\ log[p].replacer = "VariableReplacer"
                /\ log[p].attrs = input[n].attrs
          /\ \E m \in DOMAIN dom :
                /\ IsElement(dom[m])
                /\ dom[m].name = input[n].name
                /\ ~HasValueWith(dom[m].attrs, "$")
                /\ \E i \in DOMAIN dom[m].attrs :
                      /\ dom[m].attrs[i][2] = input[n].attrs[i][2]
                      /\ StartsWith(dom[m].attrs[i][2], "@")

====
